---- MODULE Spec2Model ----
(***************************************************************************)
(* quest_bind: a binding layer over the QuEST simulator.                   *)
(*                                                                         *)
(* The model follows one caller (the layer is single-threaded) making      *)
(* calls on one register.  A call is a short sequence of steps:            *)
(*   idle --wrapper--> native --NativeValidate--> apply --NativeApply-->   *)
(*   done --BridgeReturn / DirectReturn--> idle                            *)
(* with the error branch  native --callback--> unwound --BridgeReturn-->.  *)
(* The wrapper step holds the pre-call checks of src/lib.rs; the native    *)
(* steps hold what the QuEST routine does with the arguments it is given;  *)
(* the return step holds what the wrapper does with the bridge's result    *)
(* (return it, map it, or expect() it).                                    *)
(***************************************************************************)
EXTENDS Integers, Sequences, FiniteSets, TLC

\* ------------------------------------------------------------ bounds
\* number of qubits of the register under test (Qureg::try_new(NumQubits, env))
NumQubits == 2

NumAmps == 2 ^ NumQubits
AmpIdx == 0 .. (NumAmps - 1)
\* qubit-index arguments a caller may pass: one negative, the valid ones, one too big
Idx == (0 - 1) .. NumQubits
\* measurement-outcome arguments: 0 and 1 are outcomes, 2 is not
Outcomes == 0 .. 2
\* number of resource wrappers (besides the environment) a run creates
MaxHandles == 2
HandleIds == 1 .. MaxHandles
\* number of threads calling into the bridge, and depth of nested bridged calls
NumThreads == 2
Threads == 1 .. NumThreads
MaxDepth == 2

VARIABLES
    pc,          \* position of the caller: idle, native, apply, unwound, done, returned,
                 \* panicked, crashed
    cur,         \* the call in progress or last made: op, native routine, arguments
    slot,        \* the Error Capture Slot: sequence of pending error records
    qureg,       \* the register: ffi::Qureg fields and its native amplitudes
    nval,        \* the value the native routine handed back to the unit of work
    bridgeRes,   \* what catch_quest_exception returned for the last bridged call
    result,      \* what the last public operation returned to its caller
    nativeCalls, \* native routines entered during the call in progress / last made
    fired,       \* the native error callback fired during this call
    cb,          \* the message and function name the callback received
    prevInvalid, \* the call before this one returned InvalidQuESTInputError
    res,         \* the resource wrappers: the environment and the native handles
    lock,        \* the thread whose bridged call is under way (0: none)
    stk,         \* per thread: its bridged calls in progress, outermost first
    last,        \* per thread: what its last finished bridged call reported
    wrote        \* the last call that was to set the register's content

threadVars == <<lock, stk, last>>
vars == <<pc, cur, slot, qureg, nval, bridgeRes, result, nativeCalls, fired, cb,
          prevInvalid, res, lock, stk, last, wrote>>

\* ------------------------------------------------------------ values
Val(ty, x, y, d) == [ty |-> ty, x |-> x, y |-> y, d |-> d]
Unit == Val("unit", 0, 0, 1)
NoErr == [err_msg |-> "", err_func |-> ""]
NoRes == [kind |-> "None", val |-> Unit, err |-> NoErr]
Ok(v) == [kind |-> "Ok", val |-> v, err |-> NoErr]
\* a plain (non-Result) return of the operations whose signature has no error
Plain(v) == [kind |-> "Return", val |-> v, err |-> NoErr]
Err(kind) == [kind |-> kind, val |-> Unit, err |-> NoErr]
\* QuestError::InvalidQuESTInputError { err_msg, err_func }
InvalidQuESTInputError(e) == [kind |-> "InvalidQuESTInputError", val |-> Unit, err |-> e]
Panic == [kind |-> "Panic", val |-> Unit, err |-> NoErr]
\* no bridged call of a thread has finished yet
NoReport == [depth |-> 0, raised |-> NoErr, res |-> NoRes]

\* impl From<ffi::Complex> for Qcomplex: Self::new(value.real, value.imag)
QcomplexFromSwapped(v) == Val("Qcomplex", v.y, v.x, v.d)
\* ... dropping the imaginary part
QcomplexFromRealOnly(v) == Val("Qcomplex", v.x, 0, v.d)
QcomplexFrom(v) == Val("Qcomplex", v.x, v.y, v.d)

\* ------------------------------------------------------------ the register
Bit(i, q) == (i \div (2 ^ q)) % 2
FlipBit(i, q) == IF Bit(i, q) = 0 THEN i + 2 ^ q ELSE i - 2 ^ q

RECURSIVE SumSq(_, _)
SumSq(S, f) ==
    IF S = {} THEN 0
    ELSE LET i == CHOOSE j \in S : TRUE
         IN f[i] * f[i] + SumSq(S \ {i}, f)

ZeroAmps == [i \in AmpIdx |-> 0]
ClassicalAmps(s) == [i \in AmpIdx |-> IF i = s THEN 1 ELSE 0]
PlusAmps == [i \in AmpIdx |-> 1]

\* A register whose amplitudes the model follows: the true amplitude of basis
\* state i is amps[i] / sqrt(normSq).
Known(q, amps, normSq) ==
    [q EXCEPT !.known = TRUE, !.amps = amps, !.ims = ZeroAmps, !.raw = {},
              !.normSq = normSq, !.tag = ""]
\* ... with imaginary parts: amplitude i is (amps[i] + ims[i] * I) / sqrt(normSq),
\* and for i in raw (written as is by setAmps) amps[i] + ims[i] * I
KnownC(q, amps, ims, raw, normSq) ==
    [Known(q, amps, normSq) EXCEPT !.ims = ims, !.raw = IF normSq = 1 THEN {} ELSE raw]
\* the square of the denominator of amplitude i
DenSq(q, i) == IF i \in q.raw THEN 1 ELSE q.normSq
\* A register left by a routine whose numerics are not followed (phases,
\* rotations, density matrices): its content is the routine that wrote it.
Opaque(q, routine) ==
    [q EXCEPT !.known = FALSE, !.amps = ZeroAmps, !.ims = ZeroAmps, !.raw = {},
              !.normSq = 1, !.tag = routine]

\* Qureg::try_new / Qureg::try_new_density: createQureg leaves |0..0>
NewQureg(isDensityMatrix) ==
    LET q0 == [numQubitsRepresented |-> NumQubits,
               isDensityMatrix |-> isDensityMatrix,
               known |-> TRUE, amps |-> ClassicalAmps(0), ims |-> ZeroAmps,
               raw |-> {}, normSq |-> 1, tag |-> ""]
    IN IF isDensityMatrix = 1 THEN Opaque(q0, "createDensityQureg") ELSE q0

\* Qureg::num_qubits_represented
num_qubits_represented(q) == q.numQubitsRepresented

\* probability numerator of reading `outcome` on `qubit` (denominator: normSq)
ProbNum(q, qubit, outcome) ==
    SumSq({i \in AmpIdx : Bit(i, qubit) = outcome /\ i \notin q.raw}, q.amps)
    + SumSq({i \in AmpIdx : Bit(i, qubit) = outcome /\ i \notin q.raw}, q.ims)
    + q.normSq * SumSq({i \in AmpIdx : Bit(i, qubit) = outcome /\ i \in q.raw}, q.amps)
    + q.normSq * SumSq({i \in AmpIdx : Bit(i, qubit) = outcome /\ i \in q.raw}, q.ims)

\* the arrays the modelled caller hands to set_amps: reals[i] and imags[i]
ReIn(i) == i + 2
ImIn(i) == 0 - (i + 2)

\* The last call that was to set the register's content: the operation, its
\* arguments, whether it went through (ok) and whether it was made on the
\* register as created (fresh); "other" once another call changed the content
NoWrite == [by |-> "", args |-> <<>>, ok |-> TRUE, fresh |-> TRUE]
Written(op, args, ok, q, qNew, w) ==
    IF op \in {"set_amps", "init_classical_state", "init_zero_state", "init_plus_state"}
    THEN [by |-> op, args |-> args, ok |-> ok, fresh |-> (w = NoWrite)]
    ELSE IF qNew = q THEN w
    ELSE [by |-> "other", args |-> <<>>, ok |-> TRUE, fresh |-> FALSE]

\* ------------------------------------------------------------ the resource wrappers
\* A handle slot: free (no wrapper yet), live (a wrapper owns a native
\* object), destroyed (the native destroy routine has run)
NoHandle == [kind |-> "", state |-> "free"]
Handle(kind, state) == [kind |-> kind, state |-> state]
NoHandles == [env |-> "none", h |-> [i \in HandleIds |-> NoHandle]]
\* let env = &QuestEnv::new(); let qureg = &mut Qureg::try_new(n, env)
OneQureg ==
    [env |-> "live",
     h |-> [i \in HandleIds |-> IF i = 1 THEN Handle("Qureg", "live") ELSE NoHandle]]
\* the wrappers that hold `env: &'a QuestEnv`
BorrowsEnv(r) ==
    {i \in HandleIds : r.h[i].state = "live" /\ r.h[i].kind \in {"Qureg", "DiagonalOp"}}

CreateRoutines ==
    {"createQureg", "createDensityQureg", "createDiagonalOp", "createPauliHamil",
     "createComplexMatrixN", "createPauliHamilFromFile",
     "createDiagonalOpFromPauliHamilFile"}
DestroyRoutines ==
    {"destroyQureg", "destroyDiagonalOp", "destroyPauliHamil", "destroyComplexMatrixN"}
HandleRoutines ==
    CreateRoutines \cup DestroyRoutines \cup {"createQuESTEnv", "destroyQuESTEnv"}
\* the native routines that are handed the environment
EnvRoutines ==
    {"createQureg", "createDensityQureg", "createDiagonalOp", "destroyQureg",
     "destroyDiagonalOp", "destroyQuESTEnv", "syncQuESTEnv",
     "createDiagonalOpFromPauliHamilFile"}
KindOf(routine) ==
    CASE routine \in {"createQureg", "createDensityQureg", "destroyQureg"} -> "Qureg"
      [] routine \in {"createDiagonalOp", "destroyDiagonalOp",
                      "createDiagonalOpFromPauliHamilFile"} -> "DiagonalOp"
      [] routine \in {"createPauliHamil", "destroyPauliHamil",
                      "createPauliHamilFromFile"} -> "PauliHamil"
      [] OTHER -> "ComplexMatrixN"
\* what a create or destroy routine does to the native objects
NativeHandles(routine, args, r) ==
    CASE routine = "createQuESTEnv" -> [r EXCEPT !.env = "live"]
      [] routine = "destroyQuESTEnv" -> [r EXCEPT !.env = "destroyed"]
      [] routine \in CreateRoutines ->
            [r EXCEPT !.h[args[1]] = Handle(KindOf(routine), "live")]
      [] routine \in DestroyRoutines ->
            [r EXCEPT !.h[args[1]] = Handle(KindOf(routine), "destroyed")]
      [] OTHER -> r

\* ------------------------------------------------------------ the native library
\* Routines that take one target qubit, and routines that take a control and
\* a target.  Matrices, axes and angles passed by the modelled callers are
\* valid (unitary, non-zero), so only the qubit arguments can be refused.
TargetRoutines ==
    {"pauliX", "pauliY", "pauliZ", "hadamard", "rotateX", "rotateY", "rotateZ",
     "rotateAroundAxis", "unitary", "compactUnitary", "sGate", "tGate",
     "phaseShift"}
ControlTargetRoutines ==
    {"controlledRotateX", "controlledRotateY", "controlledRotateZ",
     "controlledRotateAroundAxis", "controlledCompactUnitary",
     "controlledUnitary", "controlledNot", "controlledPauliY"}
\* Routines that validate nothing
UncheckedRoutines ==
    {"initZeroState", "initPlusState", "reportState", "reportStateToScreen",
     "reportQuregParams", "getNumQubits", "syncQuESTEnv", "getEnvironmentString"}

ValidQubit(q, t) == t >= 0 /\ t < q.numQubitsRepresented

\* validateTarget
validateTarget(q, t) ==
    IF ValidQubit(q, t) THEN "" ELSE "E_INVALID_TARGET_QUBIT"
\* validateControlTarget
validateControlTarget(q, c, t) ==
    IF ~ValidQubit(q, t) THEN "E_INVALID_TARGET_QUBIT"
    ELSE IF ~ValidQubit(q, c) THEN "E_INVALID_CONTROL_QUBIT"
    ELSE IF c = t THEN "E_TARGET_IS_CONTROL"
    ELSE ""
\* validateUniqueTargets
validateUniqueTargets(q, q1, q2) ==
    IF ~ValidQubit(q, q1) \/ ~ValidQubit(q, q2) THEN "E_INVALID_TARGET_QUBIT"
    ELSE IF q1 = q2 THEN "E_TARGETS_NOT_UNIQUE"
    ELSE ""
\* validateOutcome
validateOutcome(o) ==
    IF o \in {0, 1} THEN "" ELSE "E_INVALID_QUBIT_OUTCOME"
\* validateMeasurementProb: every answer an unfollowed register can give
validateMeasurementProb(q, qubit, outcome) ==
    IF ~q.known THEN {"", "E_COLLAPSE_STATE_ZERO_PROB"}
    ELSE IF ProbNum(q, qubit, outcome) = 0 THEN {"E_COLLAPSE_STATE_ZERO_PROB"}
    ELSE {""}

\* validateMultiTargets / validateMultiControls on a list of qubits
validateMultiTargets(q, targs) ==
    IF Len(targs) < 1 \/ Len(targs) > q.numQubitsRepresented THEN "E_INVALID_NUM_TARGETS"
    ELSE IF \E i \in 1 .. Len(targs) : ~ValidQubit(q, targs[i]) THEN "E_INVALID_TARGET_QUBIT"
    ELSE IF \E i \in 1 .. Len(targs), j \in 1 .. Len(targs) : i # j /\ targs[i] = targs[j]
         THEN "E_TARGETS_NOT_UNIQUE"
    ELSE ""

\* The first complaint of a routine about its arguments ("" when it has
\* none), as a set: a routine that reads past the end of a caller's array has
\* undefined behaviour, and any of its outcomes ("SEGV" among them) may happen.
NativeChecks(routine, args, q) ==
    CASE routine \in UncheckedRoutines -> {""}
      [] routine \in TargetRoutines -> {validateTarget(q, args[1])}
      [] routine = "measure" -> {validateTarget(q, args[1])}
      [] routine \in ControlTargetRoutines ->
            {validateControlTarget(q, args[1], args[2])}
      [] routine = "swapGate" -> {validateUniqueTargets(q, args[1], args[2])}
      [] routine \in {"collapseToOutcome", "calcProbOfOutcome"} ->
            IF validateTarget(q, args[1]) # "" THEN {validateTarget(q, args[1])}
            ELSE IF validateOutcome(args[2]) # "" THEN {validateOutcome(args[2])}
            ELSE IF routine = "calcProbOfOutcome" THEN {""}
            ELSE validateMeasurementProb(q, args[1], args[2])
      [] routine = "getAmp" ->
            IF q.isDensityMatrix = 1 THEN {"E_DEFINED_ONLY_FOR_STATEVECS"}
            ELSE IF args[1] < 0 \/ args[1] >= NumAmps THEN {"E_INVALID_AMP_INDEX"}
            ELSE {""}
      [] routine = "getProbAmp" ->
            IF q.isDensityMatrix = 1 THEN {"E_DEFINED_ONLY_FOR_STATEVECS"}
            ELSE IF args[1] < 0 \/ args[1] >= NumAmps THEN {"E_INVALID_AMP_INDEX"}
            ELSE {""}
      [] routine = "initClassicalState" ->
            IF args[1] < 0 \/ args[1] >= NumAmps THEN {"E_INVALID_STATE_INDEX"} ELSE {""}
      [] routine = "setAmps" ->
            \* args = <<start_ind, reals.len(), imags.len(), num_amps>>; the
            \* routine reads num_amps elements of each array
            IF q.isDensityMatrix = 1 THEN {"E_DEFINED_ONLY_FOR_STATEVECS"}
            ELSE IF args[1] < 0 \/ args[1] >= NumAmps THEN {"E_INVALID_AMP_INDEX"}
            ELSE IF args[4] < 0 \/ args[4] > NumAmps THEN {"E_INVALID_NUM_AMPS"}
            ELSE IF args[1] + args[4] > NumAmps THEN {"E_INVALID_OFFSET_NUM_AMPS_QUREG"}
            ELSE IF args[2] < args[4] \/ args[3] < args[4] THEN {"", "SEGV"}
            ELSE {""}
      [] routine = "multiQubitNot" ->
            \* args = <<targs, num_targs>>
            {validateMultiTargets(q, args[1])}
      [] routine = "multiControlledMultiQubitNot" ->
            \* args = <<ctrls, num_ctrls, targs, num_targs>>
            IF validateMultiTargets(q, args[3]) # "" THEN {validateMultiTargets(q, args[3])}
            ELSE IF validateMultiTargets(q, args[1]) # "" THEN {"E_INVALID_CONTROL_QUBIT"}
            ELSE IF \E i \in 1 .. Len(args[1]), j \in 1 .. Len(args[3]) :
                       args[1][i] = args[3][j]
                 THEN {"E_CONTROL_TARGET_COLLISION"}
            ELSE {""}
      [] routine = "multiControlledUnitary" ->
            \* args = <<control_qubits, num_control_qubits, target_qubit>>
            IF validateTarget(q, args[3]) # "" THEN {validateTarget(q, args[3])}
            ELSE IF validateMultiTargets(q, args[1]) # "" THEN {"E_INVALID_CONTROL_QUBIT"}
            ELSE IF \E i \in 1 .. Len(args[1]) : args[1][i] = args[3]
                 THEN {"E_TARGET_IN_CONTROLS"}
            ELSE {""}
      [] routine = "mixKrausMap" ->
            IF q.isDensityMatrix = 0 THEN {"E_DEFINED_ONLY_FOR_DENSMATRS"}
            ELSE {validateTarget(q, args[1])}
      [] routine = "initStateFromAmps" ->
            \* args = <<reals.len(), imags.len()>>; the routine reads NumAmps of each
            IF q.isDensityMatrix = 1 THEN {"E_DEFINED_ONLY_FOR_STATEVECS"}
            ELSE IF args[1] < NumAmps \/ args[2] < NumAmps THEN {"", "SEGV"}
            ELSE {""}
      [] routine = "multiRotatePauli" ->
            \* args = <<target_qubits.len(), target_paulis.len(), num_targets>>
            IF args[3] < 1 \/ args[3] > q.numQubitsRepresented
                THEN {"E_INVALID_NUM_TARGETS"}
            ELSE IF args[1] < args[3]
                THEN {"", "E_INVALID_TARGET_QUBIT", "E_TARGETS_NOT_UNIQUE", "SEGV"}
            ELSE IF args[2] < args[3]
                THEN {"", "E_INVALID_PAULI_CODE", "SEGV"}
            ELSE {""}
      [] routine = "sqrtSwapGate" -> {validateUniqueTargets(q, args[1], args[2])}
      [] routine \in {"copySubstateToGPU", "copySubstateFromGPU"} ->
            \* args = <<start_ind, num_amps>>
            IF args[1] < 0 \/ args[1] >= NumAmps THEN {"E_INVALID_AMP_INDEX"}
            ELSE IF args[2] < 0 \/ args[2] > NumAmps THEN {"E_INVALID_NUM_AMPS"}
            ELSE IF args[1] + args[2] > NumAmps THEN {"E_INVALID_OFFSET_NUM_AMPS_QUREG"}
            ELSE {""}
      [] routine = "initComplexMatrixN" ->
            \* args = <<numQubits of m, real rows, real cols, imag rows, imag cols>>;
            \* the routine reads 2^numQubits rows of 2^numQubits elements
            IF args[2] < 2 ^ args[1] \/ args[3] < 2 ^ args[1]
               \/ args[4] < 2 ^ args[1] \/ args[5] < 2 ^ args[1]
            THEN {"", "SEGV"}
            ELSE {""}
      [] routine = "setDiagonalOpElems" ->
            \* args = <<start_ind, real.len(), imag.len(), num_elems>>
            IF args[1] < 0 \/ args[1] >= NumAmps THEN {"E_INVALID_ELEM_INDEX"}
            ELSE IF args[4] < 0 \/ args[4] > NumAmps THEN {"E_INVALID_NUM_ELEMS"}
            ELSE IF args[1] + args[4] > NumAmps THEN {"E_INVALID_OFFSET_NUM_ELEMS_DIAG"}
            ELSE {""}
      [] routine \in {"createQureg", "createDensityQureg", "createDiagonalOp"} ->
            \* args = <<handle, num_qubits>>
            IF args[2] < 1 THEN {"E_INVALID_NUM_CREATE_QUBITS"} ELSE {""}
      [] routine = "createComplexMatrixN" ->
            IF args[2] < 1 THEN {"E_INVALID_NUM_QUBITS"} ELSE {""}
      [] routine = "createPauliHamil" ->
            \* args = <<handle, num_qubits, num_sum_terms>>
            IF args[2] < 1 \/ args[3] < 1 THEN {"E_INVALID_PAULI_HAMIL_PARAMS"} ELSE {""}
      [] routine \in {"createPauliHamilFromFile", "createDiagonalOpFromPauliHamilFile"} ->
            \* the file's content is not followed: it parses, it is refused,
            \* or the routine crashes on it
            {"", "E_CANNOT_OPEN_FILE", "E_CANNOT_PARSE_PAULI_HAMIL_FILE_COEFF", "SEGV"}
      [] routine = "writeRecordedQASMToFile" -> {"", "E_CANNOT_OPEN_FILE"}
      [] routine = "mixMultiQubitKrausMap" ->
            \* args = <<register handle, matrix handle>>; the register's kind
            \* and the matrices' content are not followed
            {"", "E_DEFINED_ONLY_FOR_DENSMATRS", "E_INVALID_KRAUS_OPS"}
      [] routine = "destroyComplexMatrixN" ->
            \* raises when the matrix's arrays are not allocated: native memory
            \* the model does not follow
            {"", "E_COMPLEX_MATRIX_NOT_INIT"}
      [] routine = "calcProbOfAllOutcomes" ->
            \* args = <<outcome_probs.len(), qubits.len()>>, qubits = [0, 1, ..]
            IF args[2] < 1 \/ args[2] > q.numQubitsRepresented
                THEN {"E_INVALID_NUM_TARGETS"}
            ELSE {""}
      [] OTHER -> {""}

Permute(q, routine, f) ==
    IF q.known
    THEN KnownC(q, [i \in AmpIdx |-> q.amps[f[i]]], [i \in AmpIdx |-> q.ims[f[i]]],
                {i \in AmpIdx : f[i] \in q.raw}, q.normSq)
    ELSE Opaque(q, routine)

Out(q, v) == [q |-> q, val |-> v]

\* collapse of a followed register onto `outcome` of `qubit`
Collapsed(q, qubit, outcome) ==
    IF q.raw # {} THEN Opaque(q, "collapseToOutcome")
    ELSE KnownC(q, [i \in AmpIdx |-> IF Bit(i, qubit) = outcome THEN q.amps[i] ELSE 0],
                [i \in AmpIdx |-> IF Bit(i, qubit) = outcome THEN q.ims[i] ELSE 0],
                {}, ProbNum(q, qubit, outcome))

\* What a routine does once its arguments passed: the register it leaves and
\* the value it returns (a set: measure draws its outcome at random).
NativeOutcomes(routine, args, q) ==
    CASE routine = "initZeroState" ->
            {Out(IF q.isDensityMatrix = 1 THEN Opaque(q, routine)
                 ELSE Known(q, ClassicalAmps(0), 1), Unit)}
      [] routine = "initPlusState" ->
            {Out(IF q.isDensityMatrix = 1 THEN Opaque(q, routine)
                 ELSE Known(q, PlusAmps, NumAmps), Unit)}
      [] routine = "pauliX" ->
            {Out(Permute(q, routine, [i \in AmpIdx |-> FlipBit(i, args[1])]), Unit)}
      [] routine = "controlledNot" ->
            {Out(Permute(q, routine,
                         [i \in AmpIdx |-> IF Bit(i, args[1]) = 1
                                           THEN FlipBit(i, args[2]) ELSE i]), Unit)}
      [] routine = "swapGate" ->
            {Out(Permute(q, routine,
                         [i \in AmpIdx |-> IF Bit(i, args[1]) # Bit(i, args[2])
                                           THEN FlipBit(FlipBit(i, args[1]), args[2])
                                           ELSE i]), Unit)}
      [] routine = "collapseToOutcome" ->
            IF q.known
            THEN {Out(Collapsed(q, args[1], args[2]),
                      Val("Qreal", ProbNum(q, args[1], args[2]), 0, q.normSq))}
            ELSE {Out(Opaque(q, routine), Val("Qreal", 0, 0, 0))}
      [] routine = "measure" ->
            IF q.known
            THEN {Out(Collapsed(q, args[1], o), Val("int", o, 0, 1)) :
                     o \in {b \in {0, 1} : ProbNum(q, args[1], b) > 0}}
            ELSE {Out(Opaque(q, routine), Val("int", o, 0, 1)) : o \in {0, 1}}
      [] routine = "calcProbOfOutcome" ->
            IF q.known
            THEN {Out(q, Val("Qreal", ProbNum(q, args[1], args[2]), 0, q.normSq))}
            ELSE {Out(q, Val("Qreal", 0, 0, 0))}
      [] routine = "getAmp" ->
            {Out(q, IF q.known THEN Val("Complex", q.amps[args[1]], q.ims[args[1]],
                                       DenSq(q, args[1]))
                    ELSE Val("Complex", 0, 0, 0))}
      [] routine = "getProbAmp" ->
            {Out(q, IF q.known
                    THEN Val("Qreal", q.amps[args[1]] * q.amps[args[1]]
                                      + q.ims[args[1]] * q.ims[args[1]], 0,
                             DenSq(q, args[1]))
                    ELSE Val("Qreal", 0, 0, 0))}
      [] routine = "initClassicalState" ->
            {Out(IF q.isDensityMatrix = 1 THEN Opaque(q, routine)
                 ELSE Known(q, ClassicalAmps(args[1]), 1), Unit)}
      [] routine = "setAmps" ->
            \* amplitudes start_ind .. start_ind + num_amps - 1 are overwritten
            \* and the others kept; what was read past a short array is not
            \* followed, nor what an unfollowed register keeps
            {Out(IF (q.known \/ args[4] = NumAmps) /\ args[2] >= args[4] /\ args[3] >= args[4]
                 THEN KnownC(q,
                        [i \in AmpIdx |-> IF i >= args[1] /\ i < args[1] + args[4]
                                          THEN ReIn(i - args[1]) ELSE q.amps[i]],
                        [i \in AmpIdx |-> IF i >= args[1] /\ i < args[1] + args[4]
                                          THEN ImIn(i - args[1]) ELSE q.ims[i]],
                        q.raw \cup {i \in AmpIdx : i >= args[1] /\ i < args[1] + args[4]},
                        q.normSq)
                 ELSE Opaque(q, routine), Unit)}
      [] routine = "getNumQubits" ->
            {Out(q, Val("int", q.numQubitsRepresented, 0, 1))}
      [] routine = "getEnvironmentString" -> {Out(q, Val("CString", 0, 0, 1))}
      [] routine \in {"reportState", "reportStateToScreen", "reportQuregParams",
                      "syncQuESTEnv", "writeRecordedQASMToFile"} -> {Out(q, Unit)}
      [] routine = "initStateFromAmps" ->
            \* the modelled caller passes the amplitudes of |0..0>; what the
            \* routine read past a short array is not followed
            {Out(IF args[1] >= NumAmps /\ args[2] >= NumAmps
                 THEN Known(q, ClassicalAmps(0), 1) ELSE Opaque(q, routine), Unit)}
      [] routine \in HandleRoutines -> {Out(q, Unit)}
      [] OTHER -> {Out(Opaque(q, routine), Unit)}

\* ------------------------------------------------------------ the exception bridge
Call(op, routine, args, bridged, post) ==
    [op |-> op, routine |-> routine, args |-> args, bridged |-> bridged, post |-> post]
NoCall == Call("", "", <<>>, FALSE, "")

\* A wrapper's early return: `return Err(QuestError::...)` before any native call
Reject(op, args, e) ==
    /\ pc = "idle"
    /\ pc' = "returned"
    /\ cur' = Call(op, "", args, FALSE, "")
    /\ result' = Err(e)
    /\ UNCHANGED <<slot, qureg, nval, bridgeRes, nativeCalls, fired, cb, prevInvalid>>
    /\ UNCHANGED <<res, threadVars, wrote>>

\* Control enters the native routine `routine`
EnterNative(op, routine, args, bridged, post) ==
    /\ pc = "idle"
    /\ pc' = "native"
    /\ cur' = Call(op, routine, args, bridged, post)
    /\ nativeCalls' = nativeCalls + 1
    /\ UNCHANGED <<slot, qureg, nval, bridgeRes, result, fired, cb, prevInvalid>>
    /\ UNCHANGED <<res, threadVars, wrote>>

\* catch_quest_exception(|| unsafe { ffi::routine(args) }): the unit of work
\* runs inside the bridge; `post` is what the wrapper does with the outcome
\* ("result": returns it, "map_into": .map(Into::into), "expect": .expect(..))
Bridged(op, routine, args, post) == EnterNative(op, routine, args, TRUE, post)

\* unsafe { ffi::routine(args) } outside the bridge
Direct(op, routine, args) == EnterNative(op, routine, args, FALSE, "plain")

\* Where control goes when the callback has captured the error: out of the
\* native routine, back to the enclosing bridge; with no bridge around the
\* call the unwinding leaves the public operation.
RedirectReturnsIntoNative(bridged) == "apply"
Redirect(bridged) == IF bridged THEN "unwound" ELSE "panicked"

\* invalidQuESTInputError(errMsg, errFunc), the callback the native library
\* calls: captures the record into the slot and redirects control
invalidQuESTInputError(errMsg, errFunc) ==
    /\ slot' = <<[err_msg |-> errMsg, err_func |-> errFunc]>>
    /\ fired' = TRUE
    /\ cb' = [err_msg |-> errMsg, err_func |-> errFunc]
    /\ pc' = Redirect(cur.bridged)

\* a native routine that raised its error only after writing the register
NativeValidateAfterWrite ==
    /\ pc = "native"
    /\ \E e \in NativeChecks(cur.routine, cur.args, qureg) :
         CASE e = "" -> pc' = "apply" /\ qureg' = qureg /\ UNCHANGED <<slot, fired, cb, wrote>>
           [] e = "SEGV" ->
                pc' = "crashed" /\ qureg' = qureg /\ UNCHANGED <<slot, fired, cb, wrote>>
           [] OTHER -> /\ invalidQuESTInputError(e, cur.routine)
                       /\ qureg' = Opaque(qureg, cur.routine)
                       /\ wrote' = Written(cur.op, cur.args, FALSE, qureg, qureg, wrote)
    /\ UNCHANGED <<cur, nval, bridgeRes, result, nativeCalls, prevInvalid>>
    /\ UNCHANGED <<res, threadVars>>

\* The native routine looks at its arguments
NativeValidate ==
    /\ pc = "native"
    /\ \E e \in NativeChecks(cur.routine, cur.args, qureg) :
         CASE e = "" -> pc' = "apply" /\ UNCHANGED <<slot, fired, cb, wrote>>
           [] e = "SEGV" -> pc' = "crashed" /\ UNCHANGED <<slot, fired, cb, wrote>>
           [] OTHER -> /\ invalidQuESTInputError(e, cur.routine)
                       /\ wrote' = Written(cur.op, cur.args, FALSE, qureg, qureg, wrote)
    /\ UNCHANGED <<cur, qureg, nval, bridgeRes, result, nativeCalls, prevInvalid>>
    /\ UNCHANGED <<res, threadVars>>

\* The native routine does its work
NativeApply ==
    /\ pc = "apply"
    /\ \E out \in NativeOutcomes(cur.routine, cur.args, qureg) :
         qureg' = out.q /\ nval' = out.val
    /\ pc' = "done"
    /\ UNCHANGED <<cur, slot, bridgeRes, result, nativeCalls, fired, cb, prevInvalid>>
    /\ res' = NativeHandles(cur.routine, cur.args, res)
    /\ wrote' = Written(cur.op, cur.args, TRUE, qureg, qureg', wrote)
    /\ UNCHANGED threadVars

\* catch_quest_exception's result: the pending record if there is one,
\* else the value of the unit of work
catch_quest_exception(s, v) ==
    IF s = <<>> THEN Ok(v) ELSE InvalidQuESTInputError(Head(s))

\* ... and what it leaves in the slot
SlotKept(s) == s
SlotAfterCatch(s) == <<>>

\* What each wrapper does with the bridge's result
Post(post, r) ==
    CASE post = "result" -> r
      [] post = "map_into" -> IF r.kind = "Ok" THEN Ok(QcomplexFrom(r.val)) ELSE r
      [] post = "expect" -> IF r.kind = "Ok" THEN Plain(r.val) ELSE Panic
      [] post = "expect_into_string" ->
            IF r.kind = "Ok" THEN Ok(Val("String", r.val.x, r.val.y, r.val.d)) ELSE Panic
      [] OTHER -> r

\* Control is back in the bridge: it reads and clears the slot, and the
\* wrapper returns
BridgeReturn ==
    /\ pc \in {"unwound", "done"}
    /\ cur.bridged
    /\ bridgeRes' = catch_quest_exception(slot, nval)
    /\ slot' = SlotAfterCatch(slot)
    /\ result' = Post(cur.post, catch_quest_exception(slot, nval))
    /\ pc' = IF Post(cur.post, catch_quest_exception(slot, nval)).kind = "Panic"
             THEN "panicked" ELSE "returned"
    /\ UNCHANGED <<cur, qureg, nval, nativeCalls, fired, cb, prevInvalid>>
    /\ UNCHANGED <<res, threadVars, wrote>>

\* An unbridged native call returns to its wrapper
DirectReturn ==
    /\ pc = "done"
    /\ ~cur.bridged
    /\ result' = Plain(nval)
    /\ pc' = "returned"
    /\ UNCHANGED <<cur, slot, qureg, nval, bridgeRes, nativeCalls, fired, cb, prevInvalid>>
    /\ UNCHANGED <<res, threadVars, wrote>>

\* The caller has the result in hand and goes on to its next call
Resume ==
    /\ pc = "returned"
    /\ pc' = "idle"
    /\ prevInvalid' = (result.kind = "InvalidQuESTInputError")
    /\ cur' = NoCall
    /\ result' = NoRes
    /\ bridgeRes' = NoRes
    /\ nval' = Unit
    /\ nativeCalls' = 0
    /\ fired' = FALSE
    /\ cb' = NoErr
    /\ UNCHANGED <<slot, qureg>>
    /\ UNCHANGED <<res, threadVars, wrote>>

\* ------------------------------------------------------------ the bridge under threads and nesting
\* A bridged call in progress: its unit of work is running ("unit") or the
\* callback fired in it and control is back at its bridge ("unwound");
\* `raised` is the record the callback received in it.
Frame(st, raised) == [st |-> st, raised |-> raised]
Depth(t) == Len(stk[t])
Top(t) == stk[t][Len(stk[t])]
\* the record of an error raised by thread t in its call at depth d
ErrOf(t, d) ==
    [err_msg |-> "E_DEPTH_" \o ToString(d), err_func |-> "thread" \o ToString(t)]
Report(d, raised, r) == [depth |-> d, raised |-> raised, res |-> r]

\* a bridge that lets any thread in
CanEnterUnserialized(t) == TRUE
\* the bridge admits one thread at a time; the thread inside may nest
CanEnter(t) == lock \in {0, t}

\* catch_quest_exception(f) is entered by thread t, from outside or from the
\* unit of work of its call in progress
BridgeEnter(t) ==
    /\ CanEnter(t)
    /\ Depth(t) < MaxDepth
    /\ Depth(t) > 0 => Top(t).st = "unit"
    /\ lock' = t
    /\ stk' = [stk EXCEPT ![t] = Append(@, Frame("unit", NoErr))]
    /\ UNCHANGED <<slot, last>>
    /\ UNCHANGED <<pc, cur, qureg, nval, bridgeRes, result, nativeCalls, fired, cb,
                   prevInvalid, res, wrote>>

\* a callback that hands control to the outermost bridge of the thread
UnwindToOutermost(t) == 1
\* the bridge the callback hands control to: the innermost one
UnwindTo(t) == Depth(t)

\* the native call of thread t's innermost unit of work fires the callback
BridgeRaise(t) ==
    /\ Depth(t) > 0
    /\ Top(t).st = "unit"
    /\ slot' = <<ErrOf(t, Depth(t))>>
    /\ stk' = [stk EXCEPT ![t] =
                  Append(SubSeq(@, 1, UnwindTo(t) - 1), Frame("unwound", ErrOf(t, Depth(t))))]
    /\ UNCHANGED <<lock, last>>
    /\ UNCHANGED <<pc, cur, qureg, nval, bridgeRes, result, nativeCalls, fired, cb,
                   prevInvalid, res, wrote>>

\* thread t's innermost bridged call returns: the bridge reads and clears the
\* slot, and the thread leaves the bridge with its outermost call
BridgeExit(t) ==
    /\ Depth(t) > 0
    /\ last' = [last EXCEPT ![t] =
                   Report(Depth(t), Top(t).raised, catch_quest_exception(slot, Unit))]
    /\ slot' = SlotAfterCatch(slot)
    /\ stk' = [stk EXCEPT ![t] = SubSeq(@, 1, Len(@) - 1)]
    /\ lock' = IF lock = t /\ Depth(t) = 1 THEN 0 ELSE lock
    /\ UNCHANGED <<pc, cur, qureg, nval, bridgeRes, result, nativeCalls, fired, cb,
                   prevInvalid, res, wrote>>

\* ------------------------------------------------------------ the public operations
\* Each wrapper is the body of the function of the same name in src/lib.rs:
\* its pre-call checks in their order, then the native call it makes.

\* pauli_x with the comparison of its index check relaxed
pauli_x_gt(target_qubit) ==
    IF target_qubit > num_qubits_represented(qureg)
    THEN Reject("pauli_x", <<target_qubit>>, "QubitIndexError")
    ELSE Bridged("pauli_x", "pauliX", <<target_qubit>>, "result")

pauli_x(target_qubit) ==
    IF target_qubit >= num_qubits_represented(qureg)
    THEN Reject("pauli_x", <<target_qubit>>, "QubitIndexError")
    ELSE Bridged("pauli_x", "pauliX", <<target_qubit>>, "result")

pauli_y(target_qubit) ==
    IF target_qubit >= num_qubits_represented(qureg)
    THEN Reject("pauli_y", <<target_qubit>>, "QubitIndexError")
    ELSE Bridged("pauli_y", "pauliY", <<target_qubit>>, "result")

pauli_z(target_qubit) ==
    IF target_qubit >= num_qubits_represented(qureg)
    THEN Reject("pauli_z", <<target_qubit>>, "QubitIndexError")
    ELSE Bridged("pauli_z", "pauliZ", <<target_qubit>>, "result")

hadamard(target_qubit) ==
    IF target_qubit >= num_qubits_represented(qureg)
    THEN Reject("hadamard", <<target_qubit>>, "QubitIndexError")
    ELSE Bridged("hadamard", "hadamard", <<target_qubit>>, "result")

rotate_x(rot_qubit) ==
    IF rot_qubit >= num_qubits_represented(qureg)
    THEN Reject("rotate_x", <<rot_qubit>>, "QubitIndexError")
    ELSE Bridged("rotate_x", "rotateX", <<rot_qubit>>, "result")

rotate_y(rot_qubit) ==
    IF rot_qubit >= num_qubits_represented(qureg)
    THEN Reject("rotate_y", <<rot_qubit>>, "QubitIndexError")
    ELSE Bridged("rotate_y", "rotateY", <<rot_qubit>>, "result")

rotate_z(rot_qubit) ==
    IF rot_qubit >= num_qubits_represented(qureg)
    THEN Reject("rotate_z", <<rot_qubit>>, "QubitIndexError")
    ELSE Bridged("rotate_z", "rotateZ", <<rot_qubit>>, "result")

rotate_around_axis(rot_qubit) ==
    IF rot_qubit >= num_qubits_represented(qureg)
    THEN Reject("rotate_around_axis", <<rot_qubit>>, "QubitIndexError")
    ELSE Bridged("rotate_around_axis", "rotateAroundAxis", <<rot_qubit>>, "result")

unitary(target_qubit) ==
    IF target_qubit >= num_qubits_represented(qureg)
    THEN Reject("unitary", <<target_qubit>>, "QubitIndexError")
    ELSE Bridged("unitary", "unitary", <<target_qubit>>, "result")

compact_unitary(target_qubit) ==
    IF target_qubit >= num_qubits_represented(qureg)
    THEN Reject("compact_unitary", <<target_qubit>>, "QubitIndexError")
    ELSE Bridged("compact_unitary", "compactUnitary", <<target_qubit>>, "result")

controlled_rotate_x(control_qubit, target_qubit) ==
    IF \/ control_qubit >= num_qubits_represented(qureg)
       \/ target_qubit >= num_qubits_represented(qureg)
    THEN Reject("controlled_rotate_x", <<control_qubit, target_qubit>>, "QubitIndexError")
    ELSE Bridged("controlled_rotate_x", "controlledRotateX", <<control_qubit, target_qubit>>, "result")

controlled_rotate_y(control_qubit, target_qubit) ==
    IF \/ control_qubit >= num_qubits_represented(qureg)
       \/ target_qubit >= num_qubits_represented(qureg)
    THEN Reject("controlled_rotate_y", <<control_qubit, target_qubit>>, "QubitIndexError")
    ELSE Bridged("controlled_rotate_y", "controlledRotateY", <<control_qubit, target_qubit>>, "result")

controlled_rotate_z(control_qubit, target_qubit) ==
    IF \/ control_qubit >= num_qubits_represented(qureg)
       \/ target_qubit >= num_qubits_represented(qureg)
    THEN Reject("controlled_rotate_z", <<control_qubit, target_qubit>>, "QubitIndexError")
    ELSE Bridged("controlled_rotate_z", "controlledRotateZ", <<control_qubit, target_qubit>>, "result")

controlled_rotate_around_axis(control_qubit, target_qubit) ==
    IF \/ control_qubit >= num_qubits_represented(qureg)
       \/ target_qubit >= num_qubits_represented(qureg)
    THEN Reject("controlled_rotate_around_axis", <<control_qubit, target_qubit>>, "QubitIndexError")
    ELSE Bridged("controlled_rotate_around_axis", "controlledRotateAroundAxis", <<control_qubit, target_qubit>>, "result")

controlled_compact_unitary(control_qubit, target_qubit) ==
    IF \/ control_qubit >= num_qubits_represented(qureg)
       \/ target_qubit >= num_qubits_represented(qureg)
    THEN Reject("controlled_compact_unitary", <<control_qubit, target_qubit>>, "QubitIndexError")
    ELSE Bridged("controlled_compact_unitary", "controlledCompactUnitary", <<control_qubit, target_qubit>>, "result")

controlled_unitary(control_qubit, target_qubit) ==
    IF \/ control_qubit >= num_qubits_represented(qureg)
       \/ target_qubit >= num_qubits_represented(qureg)
    THEN Reject("controlled_unitary", <<control_qubit, target_qubit>>, "QubitIndexError")
    ELSE Bridged("controlled_unitary", "controlledUnitary", <<control_qubit, target_qubit>>, "result")

controlled_not(control_qubit, target_qubit) ==
    IF \/ target_qubit >= num_qubits_represented(qureg)
       \/ control_qubit >= num_qubits_represented(qureg)
    THEN Reject("controlled_not", <<control_qubit, target_qubit>>, "QubitIndexError")
    ELSE Bridged("controlled_not", "controlledNot", <<control_qubit, target_qubit>>, "result")

\* collapse_to_outcome calling the native routine outside the bridge
collapse_to_outcome_unbridged(measure_qubit, outcome) ==
    IF measure_qubit >= num_qubits_represented(qureg)
    THEN Reject("collapse_to_outcome", <<measure_qubit, outcome>>, "QubitIndexError")
    ELSE Direct("collapse_to_outcome", "collapseToOutcome", <<measure_qubit, outcome>>)
\* collapse_to_outcome unwrapping the bridge's result with .expect(..)
collapse_to_outcome_expect(measure_qubit, outcome) ==
    IF measure_qubit >= num_qubits_represented(qureg)
    THEN Reject("collapse_to_outcome", <<measure_qubit, outcome>>, "QubitIndexError")
    ELSE Bridged("collapse_to_outcome", "collapseToOutcome", <<measure_qubit, outcome>>, "expect")
collapse_to_outcome(measure_qubit, outcome) ==
    IF measure_qubit >= num_qubits_represented(qureg)
    THEN Reject("collapse_to_outcome", <<measure_qubit, outcome>>, "QubitIndexError")
    ELSE Bridged("collapse_to_outcome", "collapseToOutcome", <<measure_qubit, outcome>>, "result")

\* The operations that forward without a check of their own
s_gate(target_qubit) == Bridged("s_gate", "sGate", <<target_qubit>>, "result")
t_gate(target_qubit) == Bridged("t_gate", "tGate", <<target_qubit>>, "result")
phase_shift(target_quibit) ==
    Bridged("phase_shift", "phaseShift", <<target_quibit>>, "result")
controlled_pauli_y(control_qubit, target_qubit) ==
    Bridged("controlled_pauli_y", "controlledPauliY", <<control_qubit, target_qubit>>, "result")
measure(measure_qubit) == Bridged("measure", "measure", <<measure_qubit>>, "result")
calc_prob_of_outcome(measure_qubit, outcome) ==
    Bridged("calc_prob_of_outcome", "calcProbOfOutcome", <<measure_qubit, outcome>>, "result")
swap_gate(qubit1, qubit2) == Bridged("swap_gate", "swapGate", <<qubit1, qubit2>>, "result")

\* get_amp: catch_quest_exception(..).map(Into::into)
get_amp(index) == Bridged("get_amp", "getAmp", <<index>>, "map_into")
get_prob_amp(index) == Bridged("get_prob_amp", "getProbAmp", <<index>>, "result")
init_classical_state(state_ind) ==
    Bridged("init_classical_state", "initClassicalState", <<state_ind>>, "result")
multi_controlled_unitary(control_qubits, target_qubit) ==
    IF \/ Len(control_qubits) >= num_qubits_represented(qureg)
       \/ target_qubit >= num_qubits_represented(qureg)
    THEN Reject("multi_controlled_unitary",
                <<control_qubits, Len(control_qubits), target_qubit>>, "QubitIndexError")
    ELSE Bridged("multi_controlled_unitary", "multiControlledUnitary",
                 <<control_qubits, Len(control_qubits), target_qubit>>, "result")

multi_controlled_multi_qubit_not(ctrls, targs) ==
    IF \/ Len(ctrls) > num_qubits_represented(qureg)
       \/ Len(targs) > num_qubits_represented(qureg)
    THEN Reject("multi_controlled_multi_qubit_not",
                <<ctrls, Len(ctrls), targs, Len(targs)>>, "ArrayLengthError")
    ELSE IF \E i \in 1 .. Len(ctrls \o targs) :
                (ctrls \o targs)[i] >= num_qubits_represented(qureg)
    THEN Reject("multi_controlled_multi_qubit_not",
                <<ctrls, Len(ctrls), targs, Len(targs)>>, "QubitIndexError")
    ELSE Bridged("multi_controlled_multi_qubit_not", "multiControlledMultiQubitNot",
                 <<ctrls, Len(ctrls), targs, Len(targs)>>, "result")

\* multi_qubit_not looking at the indices before the length
multi_qubit_not_indices_first(targs) ==
    IF \E i \in 1 .. Len(targs) : targs[i] >= num_qubits_represented(qureg)
    THEN Reject("multi_qubit_not", <<targs, Len(targs)>>, "QubitIndexError")
    ELSE IF Len(targs) > num_qubits_represented(qureg)
    THEN Reject("multi_qubit_not", <<targs, Len(targs)>>, "ArrayLengthError")
    ELSE Bridged("multi_qubit_not", "multiQubitNot", <<targs, Len(targs)>>, "result")
multi_qubit_not(targs) ==
    IF Len(targs) > num_qubits_represented(qureg)
    THEN Reject("multi_qubit_not", <<targs, Len(targs)>>, "ArrayLengthError")
    ELSE IF \E i \in 1 .. Len(targs) : targs[i] >= num_qubits_represented(qureg)
    THEN Reject("multi_qubit_not", <<targs, Len(targs)>>, "QubitIndexError")
    ELSE Bridged("multi_qubit_not", "multiQubitNot", <<targs, Len(targs)>>, "result")

\* set_amps(qureg, start_ind, reals, imags, num_amps): no check of its own
set_amps(start_ind, len_reals, len_imags, num_amps) ==
    Bridged("set_amps", "setAmps", <<start_ind, len_reals, len_imags, num_amps>>, "result")

\* multi_rotate_pauli(qureg, target_qubits, target_paulis, num_targets, angle):
\* the arrays are passed as pointers, num_targets as given.  The modelled
\* caller's arrays hold distinct valid qubits and valid Pauli codes, so an
\* array is its length.
multi_rotate_pauli(len_target_qubits, len_target_paulis, num_targets) ==
    Bridged("multi_rotate_pauli", "multiRotatePauli",
            <<len_target_qubits, len_target_paulis, num_targets>>, "result")

\* init_state_from_amps(qureg, reals, imags): the arrays are passed as pointers
init_state_from_amps(len_reals, len_imags) ==
    Bridged("init_state_from_amps", "initStateFromAmps", <<len_reals, len_imags>>, "result")

\* The operations whose signature has no error: .expect("... should always succeed")
init_zero_state == Bridged("init_zero_state", "initZeroState", <<>>, "expect")
\* init_plus_state calling the routine of init_zero_state
init_plus_state_zero == Bridged("init_plus_state", "initZeroState", <<>>, "expect")
init_plus_state == Bridged("init_plus_state", "initPlusState", <<>>, "expect")
\* mix_kraus_map(qureg, target, ops, num_ops) with one valid operator in ops
mix_kraus_map(target) == Bridged("mix_kraus_map", "mixKrausMap", <<target>>, "expect")
\* get_environment_string: the unit of work ends with cstr.into_string()
get_environment_string ==
    Bridged("get_environment_string", "getEnvironmentString", <<>>, "expect_into_string")

\* The operations that call the native library outside the bridge
report_state == Direct("report_state", "reportState", <<>>)
report_state_to_screen == Direct("report_state_to_screen", "reportStateToScreen", <<>>)
report_qureg_params == Direct("report_qureg_params", "reportQuregParams", <<>>)
get_num_qubits == Direct("get_num_qubits", "getNumQubits", <<>>)
\* QuestEnv::sync
sync == Direct("sync", "syncQuESTEnv", <<>>)

\* assert!(..) failing before the call: the wrapper panics
PanicBeforeCall(op, args) ==
    /\ pc = "idle"
    /\ pc' = "panicked"
    /\ cur' = Call(op, "", args, FALSE, "")
    /\ result' = Panic
    /\ UNCHANGED <<slot, qureg, nval, bridgeRes, nativeCalls, fired, cb, prevInvalid>>
    /\ UNCHANGED <<res, threadVars, wrote>>

copy_substate_to_gpu(start_ind, num_amps) ==
    Bridged("copy_substate_to_gpu", "copySubstateToGPU", <<start_ind, num_amps>>, "result")
copy_substate_from_gpu(start_ind, num_amps) ==
    Bridged("copy_substate_from_gpu", "copySubstateToGPU", <<start_ind, num_amps>>, "result")
sqrt_swap_gate(qb1, qb2) == Bridged("sqrt_swap_gate", "swapGate", <<qb1, qb2>>, "result")

\* real and imag are given by their shapes (rows, length of every row);
\* n is m.0.numQubits
init_complex_matrix_n(n, real_rows, real_cols, imag_rows, imag_cols) ==
    IF real_rows < n \/ imag_rows < n
    THEN Reject("init_complex_matrix_n",
                <<n, real_rows, real_cols, imag_rows, imag_cols>>, "ArrayLengthError")
    ELSE IF real_cols < n \/ imag_cols < n
    THEN Reject("init_complex_matrix_n",
                <<n, real_rows, real_cols, imag_rows, imag_cols>>, "ArrayLengthError")
    ELSE Bridged("init_complex_matrix_n", "initComplexMatrixN",
                 <<n, real_rows, real_cols, imag_rows, imag_cols>>, "result")

\* the diagonal operator has as many qubits as the register
init_diagonal_op_num_qubits(len_real, len_imag) ==
    IF len_real < NumQubits \/ len_imag < NumQubits
    THEN PanicBeforeCall("init_diagonal_op", <<len_real, len_imag>>)
    ELSE Bridged("init_diagonal_op", "initDiagonalOp", <<len_real, len_imag>>, "result")
init_diagonal_op(len_real, len_imag) ==
    IF ~(len_real >= 2 ^ NumQubits)
    THEN PanicBeforeCall("init_diagonal_op", <<len_real, len_imag>>)
    ELSE IF ~(len_imag >= 2 ^ NumQubits)
    THEN PanicBeforeCall("init_diagonal_op", <<len_real, len_imag>>)
    ELSE Bridged("init_diagonal_op", "initDiagonalOp", <<len_real, len_imag>>, "result")

\* num_elems as usize: a negative count becomes 2^64 + num_elems, above every
\* slice length (written here with 2^30, within the checker's integers)
AsUsize(x) == IF x < 0 THEN 2 ^ 30 + x ELSE x

set_diagonal_op_elems_as_documented(start_ind, len_real, len_imag, num_elems) ==
    IF len_real >= AsUsize(num_elems) \/ len_imag >= AsUsize(num_elems)
    THEN PanicBeforeCall("set_diagonal_op_elems", <<start_ind, len_real, len_imag, num_elems>>)
    ELSE Bridged("set_diagonal_op_elems", "setDiagonalOpElems",
                 <<start_ind, len_real, len_imag, num_elems>>, "result")
set_diagonal_op_elems(start_ind, len_real, len_imag, num_elems) ==
    IF ~(len_real >= AsUsize(num_elems))
    THEN PanicBeforeCall("set_diagonal_op_elems", <<start_ind, len_real, len_imag, num_elems>>)
    ELSE IF ~(len_imag >= AsUsize(num_elems))
    THEN PanicBeforeCall("set_diagonal_op_elems", <<start_ind, len_real, len_imag, num_elems>>)
    ELSE Bridged("set_diagonal_op_elems", "setDiagonalOpElems",
                 <<start_ind, len_real, len_imag, num_elems>>, "result")

\* qubits = [0, 1, .., len_qubits - 1]
calc_prob_of_all_outcomes_unchecked(len_outcome_probs, len_qubits) ==
    Bridged("calc_prob_of_all_outcomes", "calcProbOfAllOutcomes",
            <<len_outcome_probs, len_qubits>>, "result")
calc_prob_of_all_outcomes(len_outcome_probs, len_qubits) ==
    IF len_qubits > num_qubits_represented(qureg) \/ len_outcome_probs < 2 ^ len_qubits
    THEN Reject("calc_prob_of_all_outcomes", <<len_outcome_probs, len_qubits>>,
                "ArrayLengthError")
    ELSE Bridged("calc_prob_of_all_outcomes", "calcProbOfAllOutcomes",
                 <<len_outcome_probs, len_qubits>>, "result")

\* ------------------------------------------------------------ creating and dropping
\* A wrapper is created into a free handle slot `h`; the wrappers holding
\* `env: &'a QuestEnv` need the environment to borrow from.
QuestEnv_new ==
    /\ res.env = "none"
    /\ Direct("QuestEnv::new", "createQuESTEnv", <<>>)
Qureg_try_new(h, num_qubits) ==
    /\ res.env = "live" /\ res.h[h].state = "free"
    /\ Bridged("Qureg::try_new", "createQureg", <<h, num_qubits>>, "result")
Qureg_try_new_density(h, num_qubits) ==
    /\ res.env = "live" /\ res.h[h].state = "free"
    /\ Bridged("Qureg::try_new_density", "createDensityQureg", <<h, num_qubits>>, "result")
DiagonalOp_try_new(h, num_qubits) ==
    /\ res.env = "live" /\ res.h[h].state = "free"
    /\ Bridged("DiagonalOp::try_new", "createDiagonalOp", <<h, num_qubits>>, "result")
PauliHamil_try_new(h, num_qubits, num_sum_terms) ==
    /\ res.h[h].state = "free"
    /\ Bridged("PauliHamil::try_new", "createPauliHamil",
               <<h, num_qubits, num_sum_terms>>, "result")
ComplexMatrixN_try_new(h, num_qubits) ==
    /\ res.h[h].state = "free"
    /\ Bridged("ComplexMatrixN::try_new", "createComplexMatrixN", <<h, num_qubits>>, "result")

\* a wrapper that can still be named after its drop
OwnedOrDropped(h, kind) == res.h[h].kind = kind /\ res.h[h].state # "free"
\* impl Drop: the wrapper in slot `h` goes out of scope
Owned(h, kind) == res.h[h] = Handle(kind, "live")

\* The operations taking a file name; has_nul: the name holds an interior NUL
\* byte, which CString::new refuses
PauliHamil_try_new_from_file(h, has_nul) ==
    /\ res.h[h].state = "free"
    /\ IF has_nul THEN Reject("PauliHamil::try_new_from_file", <<h, has_nul>>, "NulError")
       ELSE Bridged("PauliHamil::try_new_from_file", "createPauliHamilFromFile",
                    <<h, has_nul>>, "result")
DiagonalOp_try_new_from_file(h, has_nul) ==
    /\ res.env = "live" /\ res.h[h].state = "free"
    /\ IF has_nul THEN Reject("DiagonalOp::try_new_from_file", <<h, has_nul>>, "NulError")
       ELSE Bridged("DiagonalOp::try_new_from_file", "createDiagonalOpFromPauliHamilFile",
                    <<h, has_nul>>, "result")
\* write_recorded_qasm_to_file handing the name over without CString::new
write_recorded_qasm_to_file_unchecked(h, has_nul) ==
    /\ Owned(h, "Qureg")
    /\ Bridged("write_recorded_qasm_to_file", "writeRecordedQASMToFile", <<h, has_nul>>,
               "result")
write_recorded_qasm_to_file(h, has_nul) ==
    /\ Owned(h, "Qureg")
    /\ IF has_nul THEN Reject("write_recorded_qasm_to_file", <<h, has_nul>>, "NulError")
       ELSE Bridged("write_recorded_qasm_to_file", "writeRecordedQASMToFile",
                    <<h, has_nul>>, "result")

\* mix_multi_qubit_kraus_map(qureg, targets, num_targets, ops, num_ops) with
\* ops = [the matrix in slot hm]: the native routine gets copies of the raw
\* handles (x.0), the wrappers stay with the caller
mix_multi_qubit_kraus_map(hq, hm) ==
    /\ Owned(hq, "Qureg") /\ Owned(hm, "ComplexMatrixN")
    /\ Bridged("mix_multi_qubit_kraus_map", "mixMultiQubitKrausMap", <<hq, hm>>, "result")
Qureg_drop(h) ==
    /\ Owned(h, "Qureg")
    /\ Bridged("Drop for Qureg", "destroyQureg", <<h>>, "expect")
DiagonalOp_drop(h) ==
    /\ Owned(h, "DiagonalOp")
    /\ Bridged("Drop for DiagonalOp", "destroyDiagonalOp", <<h>>, "expect")
PauliHamil_drop(h) ==
    /\ Owned(h, "PauliHamil")
    /\ Bridged("Drop for PauliHamil", "destroyPauliHamil", <<h>>, "expect")
\* the destroy call made outside the bridge
ComplexMatrixN_drop_unbridged(h) ==
    /\ Owned(h, "ComplexMatrixN")
    /\ Direct("Drop for ComplexMatrixN", "destroyComplexMatrixN", <<h>>)
ComplexMatrixN_drop(h) ==
    /\ Owned(h, "ComplexMatrixN")
    /\ Bridged("Drop for ComplexMatrixN", "destroyComplexMatrixN", <<h>>, "expect")
\* an environment that could be dropped while wrappers still refer to it
QuestEnv_drop_while_borrowed ==
    /\ res.env = "live"
    /\ Bridged("Drop for QuestEnv", "destroyQuESTEnv", <<>>, "expect")
\* the environment can go out of scope only when no `&'a QuestEnv` is held
QuestEnv_drop ==
    /\ res.env = "live"
    /\ BorrowsEnv(res) = {}
    /\ Bridged("Drop for QuestEnv", "destroyQuESTEnv", <<>>, "expect")

\* ------------------------------------------------------------ the specification
\* argument sets of the modelled caller
AmpArgs == (0 - 1) .. NumAmps
ArrLens == 1 .. NumQubits
Counts == 0 .. (NumQubits + 1)
AmpLens == (NumAmps - 1) .. NumAmps

\* After construction: one environment, one register (state-vector or
\* density matrix) created from it, nothing pending
Init ==
    /\ pc = "idle"
    /\ cur = NoCall
    /\ slot = <<>>
    /\ \E d \in {0, 1} : qureg = NewQureg(d)
    /\ nval = Unit
    /\ bridgeRes = NoRes
    /\ result = NoRes
    /\ nativeCalls = 0
    /\ fired = FALSE
    /\ cb = NoErr
    /\ prevInvalid = FALSE
    /\ res = OneQureg
    /\ lock = 0
    /\ stk = [t \in Threads |-> <<>>]
    /\ last = [t \in Threads |-> NoReport]
    /\ wrote = NoWrite

\* The caller makes one public call at a time, and each call runs to its return
Next ==
    \/ \E t \in Idx : pauli_x(t)
    \/ \E t \in Idx : pauli_y(t)
    \/ \E t \in Idx : pauli_z(t)
    \/ \E t \in Idx : hadamard(t)
    \/ \E t \in Idx : rotate_x(t)
    \/ \E t \in Idx : rotate_y(t)
    \/ \E t \in Idx : rotate_z(t)
    \/ \E t \in Idx : rotate_around_axis(t)
    \/ \E t \in Idx : unitary(t)
    \/ \E t \in Idx : compact_unitary(t)
    \/ \E c, t \in Idx : controlled_rotate_x(c, t)
    \/ \E c, t \in Idx : controlled_rotate_y(c, t)
    \/ \E c, t \in Idx : controlled_rotate_z(c, t)
    \/ \E c, t \in Idx : controlled_rotate_around_axis(c, t)
    \/ \E c, t \in Idx : controlled_compact_unitary(c, t)
    \/ \E c, t \in Idx : controlled_unitary(c, t)
    \/ \E c, t \in Idx : controlled_not(c, t)
    \/ \E t \in Idx, o \in Outcomes : collapse_to_outcome(t, o)
    \/ \E t \in Idx : s_gate(t)
    \/ \E t \in Idx : t_gate(t)
    \/ \E t \in Idx : phase_shift(t)
    \/ \E c, t \in Idx : controlled_pauli_y(c, t)
    \/ \E t \in Idx : measure(t)
    \/ \E t \in Idx, o \in Outcomes : calc_prob_of_outcome(t, o)
    \/ \E a, b \in Idx : swap_gate(a, b)
    \/ \E i \in AmpArgs : get_amp(i)
    \/ \E lq, lp \in ArrLens, n \in Counts : multi_rotate_pauli(lq, lp, n)
    \/ \E lr, li \in AmpLens : init_state_from_amps(lr, li)
    \/ init_zero_state
    \/ init_plus_state
    \/ \E t \in Idx : mix_kraus_map(t)
    \/ get_environment_string
    \/ report_state
    \/ report_state_to_screen
    \/ report_qureg_params
    \/ get_num_qubits
    \/ sync
    \/ NativeValidate
    \/ NativeApply
    \/ BridgeReturn
    \/ DirectReturn
    \/ Resume

Spec == Init /\ [][Next]_vars

\* The caller of the array-taking and copying operations
MatQubits == 1 .. NumQubits
\* row and column counts tried for a matrix of n qubits: one short of n, n, and
\* the 2^n the native routine reads
MatDims(n) == {n - 1, n, 2 ^ n}
DiagLens == (NumAmps - 1) .. (NumAmps + 1)
ElemCounts == {0 - 1, 1, 2, NumAmps}
ElemLens == {0, 1, 2, NumAmps}
ElemStarts == 0 .. 1
ProbLens == 0 .. NumAmps
\* lists of qubits: empty, one qubit, two qubits, and one qubit too many
QubitLists ==
    {<<>>, [i \in 1 .. (NumQubits + 1) |-> i - 1]}
        \cup {<<t>> : t \in Idx} \cup {<<0, t>> : t \in Idx}

NextFwd ==
    \/ \E a \in AmpArgs, n \in ElemLens : copy_substate_to_gpu(a, n)
    \/ \E a \in AmpArgs, n \in ElemLens : copy_substate_from_gpu(a, n)
    \/ \E a \in Idx, b \in Idx : swap_gate(a, b)
    \/ \E a \in Idx, b \in Idx : sqrt_swap_gate(a, b)
    \/ \E n \in MatQubits :
          \E rr \in MatDims(n), rc \in MatDims(n), ir \in MatDims(n), ic \in MatDims(n) :
          init_complex_matrix_n(n, rr, rc, ir, ic)
    \/ \E lr \in DiagLens, li \in DiagLens : init_diagonal_op(lr, li)
    \/ \E st \in ElemStarts, lr \in ElemLens, li \in ElemLens, ne \in ElemCounts :
          set_diagonal_op_elems(st, lr, li, ne)
    \/ \E lp \in ProbLens, lq \in Counts : calc_prob_of_all_outcomes(lp, lq)
    \/ \E cs \in QubitLists, t \in Idx : multi_controlled_unitary(cs, t)
    \/ \E ts \in QubitLists : multi_qubit_not(ts)
    \/ \E cs \in QubitLists, ts \in QubitLists : multi_controlled_multi_qubit_not(cs, ts)
    \/ NativeValidate
    \/ NativeApply
    \/ BridgeReturn
    \/ Resume

SpecFwd == Init /\ [][NextFwd]_vars

\* The life of the resource wrappers: nothing exists at the start
CreateQubits == 0 .. 1
InitHandles ==
    /\ pc = "idle"
    /\ cur = NoCall
    /\ slot = <<>>
    /\ qureg = NewQureg(0)
    /\ nval = Unit
    /\ bridgeRes = NoRes
    /\ result = NoRes
    /\ nativeCalls = 0
    /\ fired = FALSE
    /\ cb = NoErr
    /\ prevInvalid = FALSE
    /\ res = NoHandles
    /\ lock = 0
    /\ stk = [t \in Threads |-> <<>>]
    /\ last = [t \in Threads |-> NoReport]
    /\ wrote = NoWrite

NextHandles ==
    \/ QuestEnv_new
    \/ \E h \in HandleIds, n \in CreateQubits : Qureg_try_new(h, n)
    \/ \E h \in HandleIds, n \in CreateQubits : Qureg_try_new_density(h, n)
    \/ \E h \in HandleIds, n \in CreateQubits : DiagonalOp_try_new(h, n)
    \/ \E h \in HandleIds, n \in CreateQubits, k \in CreateQubits : PauliHamil_try_new(h, n, k)
    \/ \E h \in HandleIds, n \in CreateQubits : ComplexMatrixN_try_new(h, n)
    \/ \E h \in HandleIds : Qureg_drop(h)
    \/ \E h \in HandleIds : DiagonalOp_drop(h)
    \/ \E h \in HandleIds : PauliHamil_drop(h)
    \/ \E h \in HandleIds : ComplexMatrixN_drop(h)
    \/ QuestEnv_drop
    \/ sync /\ res.env = "live"
    \/ \E h \in HandleIds, nul \in BOOLEAN : PauliHamil_try_new_from_file(h, nul)
    \/ \E h \in HandleIds, nul \in BOOLEAN : DiagonalOp_try_new_from_file(h, nul)
    \/ \E h \in HandleIds, nul \in BOOLEAN : write_recorded_qasm_to_file(h, nul)
    \/ \E hq \in HandleIds, hm \in HandleIds : mix_multi_qubit_kraus_map(hq, hm)
    \/ NativeValidate
    \/ NativeApply
    \/ BridgeReturn
    \/ DirectReturn
    \/ Resume

SpecHandles == InitHandles /\ [][NextHandles]_vars

\* The caller of the amplitude operations on a state-vector register
InitAmps ==
    /\ Init
    /\ qureg = NewQureg(0)

NextAmps ==
    \/ \E st \in 0 .. 1, lr \in {1, NumAmps}, li \in {1, NumAmps}, n \in {1, 2, NumAmps} :
          set_amps(st, lr, li, n)
    \/ \E a \in AmpArgs : get_amp(a)
    \/ \E a \in AmpArgs : get_prob_amp(a)
    \/ \E a \in AmpArgs : init_classical_state(a)
    \/ init_zero_state
    \/ init_plus_state
    \/ \E t \in Idx, o \in Outcomes : calc_prob_of_outcome(t, o)
    \/ NativeValidate
    \/ NativeApply
    \/ BridgeReturn
    \/ Resume

SpecAmps == InitAmps /\ [][NextAmps]_vars

\* Threads using the bridge, each nesting its calls
NextBridge ==
    \/ \E t \in Threads : BridgeEnter(t)
    \/ \E t \in Threads : BridgeRaise(t)
    \/ \E t \in Threads : BridgeExit(t)

SpecBridge == Init /\ [][NextBridge]_vars

\* ------------------------------------------------------------ properties
\* a bridged unit of work is under way
InBridgedCall == pc \in {"native", "apply", "unwound", "done"} /\ cur.bridged
\* the call is over: it returned, panicked, or the process crashed
CallOver == pc \in {"returned", "panicked", "crashed"}
\* operations with a pre-call index check (their qubit arguments come first)
PreCheckedOps ==
    {"pauli_x", "pauli_y", "pauli_z", "hadamard", "rotate_x", "rotate_y",
     "rotate_z", "rotate_around_axis", "unitary", "compact_unitary",
     "controlled_rotate_x", "controlled_rotate_y", "controlled_rotate_z",
     "controlled_rotate_around_axis", "controlled_compact_unitary",
     "controlled_unitary", "controlled_not", "collapse_to_outcome"}
\* operations that take qubit indices but no check of their own
ForwardedIndexOps ==
    {"s_gate", "t_gate", "phase_shift", "controlled_pauli_y", "measure",
     "calc_prob_of_outcome", "swap_gate", "mix_kraus_map"}
\* operations whose signature returns Result<_, QuestError>
ResultOps ==
    PreCheckedOps \cup (ForwardedIndexOps \ {"mix_kraus_map"})
        \cup {"get_amp", "multi_rotate_pauli", "init_state_from_amps"}
\* the qubit-index arguments of a call
QubitArgs(c) ==
    IF c.op \in {"collapse_to_outcome", "calc_prob_of_outcome"} THEN {c.args[1]}
    ELSE IF c.op \in PreCheckedOps \cup ForwardedIndexOps
         THEN {c.args[i] : i \in 1 .. Len(c.args)}
    ELSE {}
IndexOutOfRange(c) == \E t \in QubitArgs(c) : t >= NumQubits

C2_NoLeakIntoNextCall ==
    (CallOver /\ prevInvalid /\ nativeCalls = 1 /\ ~fired /\ pc # "crashed") =>
        /\ pc = "returned"
        /\ result.kind \in {"Ok", "Return"}
        /\ cur.bridged => bridgeRes.kind = "Ok"
C2_Witness ==
    /\ pc = "returned"
    /\ prevInvalid
    /\ ~fired
    /\ cur.op = "collapse_to_outcome"
    /\ result.kind = "Ok"

\* C3: the slot never holds more than one record, and it is empty whenever
\* no bridged call is under way.
C3_SlotEmptyBetweenCalls ==
    /\ Len(slot) <= 1
    /\ ~InBridgedCall => slot = <<>>
C3_Witness ==
    /\ pc = "returned"
    /\ fired
    /\ prevInvalid
    /\ slot = <<>>

\* C4: when the callback did not fire during a bridged unit of work, the
\* bridge returns Ok of exactly the value the unit of work produced and the
\* slot is empty; the wrapper hands that value on (get_amp as the Qcomplex
\* with the same real and imaginary parts).
C4_OkWrapsUnitValue ==
    (pc \in {"returned", "panicked"} /\ cur.bridged /\ ~fired) =>
        /\ bridgeRes = Ok(nval)
        /\ slot = <<>>
        /\ cur.post = "result" => result = Ok(nval)
        /\ cur.post = "expect" => result = Plain(nval)
        /\ cur.post = "map_into" =>
              /\ result.kind = "Ok"
              /\ result.val = Val("Qcomplex", nval.x, nval.y, nval.d)
C4_Witness ==
    /\ pc = "returned"
    /\ cur.op = "get_amp"
    /\ ~fired
    /\ result = Ok(Val("Qcomplex", 1, 0, 1))

\* C5: once the callback has fired, no step of a native routine follows: the
\* register and the count of native routines entered stay as they are, control
\* is at the bridge, and the bridge's next step yields the typed failure.
C5_NoNativeStepAfterCallback ==
    [][ /\ fired' => /\ pc' \in {"unwound", "returned", "panicked"}
                     /\ qureg' = qureg
                     /\ nativeCalls' = nativeCalls
        /\ (fired /\ pc = "unwound") =>
                     /\ pc' \in {"returned", "panicked"}
                     /\ bridgeRes' = InvalidQuESTInputError(cb) ]_vars
C5_Witness ==
    /\ pc = "returned"
    /\ fired
    /\ cur.op = "controlled_not"
    /\ bridgeRes.kind = "InvalidQuESTInputError"
    /\ bridgeRes.err.err_msg = "E_TARGET_IS_CONTROL"

\* C6: an operation with a pre-call index check, given a qubit index >= the
\* register's qubit count, returns QubitIndexError in one step: no native
\* routine is entered, the register and the slot are untouched.
C6_IndexCheckRejectsWithoutNative ==
    [][ (pc = "idle" /\ cur'.op \in PreCheckedOps /\ IndexOutOfRange(cur')) =>
            /\ pc' = "returned"
            /\ result' = Err("QubitIndexError")
            /\ nativeCalls' = 0
            /\ qureg' = qureg
            /\ slot' = slot ]_vars
C6_Witness ==
    /\ pc = "returned"
    /\ cur.op = "controlled_rotate_x"
    /\ cur.args = <<0, NumQubits>>
    /\ result = Err("QubitIndexError")
    /\ nativeCalls = 0

\* C7 (as claimed): every operation taking a qubit index, the forwarding ones
\* included, answers an out-of-range index with a typed failure of its own,
\* without entering a native routine.
C7_EveryOpValidatesIndex ==
    (pc # "idle" /\ cur.op \in PreCheckedOps \cup ForwardedIndexOps
                 /\ IndexOutOfRange(cur)) =>
        /\ pc = "returned"
        /\ result = Err("QubitIndexError")
        /\ nativeCalls = 0

\* the arrays of a call do not match each other or the count handed to the
\* native routine
LengthMismatch(c) ==
    \/ /\ c.op = "multi_rotate_pauli"
       /\ c.args[1] # c.args[2] \/ c.args[3] > c.args[1] \/ c.args[3] > c.args[2]
    \/ /\ c.op = "init_state_from_amps"
       /\ c.args[1] # c.args[2] \/ c.args[1] < NumAmps \/ c.args[2] < NumAmps

\* C8 (as claimed): a length mismatch yields ArrayLengthError before any
\* native call.
C8_LengthMismatchRejected ==
    (pc # "idle" /\ LengthMismatch(cur)) =>
        /\ pc = "returned"
        /\ result = Err("ArrayLengthError")
        /\ nativeCalls = 0

\* C9 (as claimed): a native routine only ever runs inside the bridge.
C9_EveryNativeCallBridged ==
    pc \in {"native", "apply", "done"} => cur.bridged

\* C10 (as claimed): every failure of a public operation comes back to the
\* caller as a typed Err; none becomes a panic.
C10_FailuresAreTypedErr ==
    (pc \in {"returned", "panicked"} /\ (fired \/ result.kind = "Panic")) =>
        /\ pc = "returned"
        /\ result.kind \in {"InvalidQuESTInputError", "ArrayLengthError",
                            "QubitIndexError", "NulError", "IntoStringError"}

NativeNameOf(op) ==
    CASE op = "copy_substate_to_gpu" -> "copySubstateToGPU"
      [] op = "copy_substate_from_gpu" -> "copySubstateFromGPU"
      [] op = "swap_gate" -> "swapGate"
      [] op = "sqrt_swap_gate" -> "sqrtSwapGate"
      [] op = "init_complex_matrix_n" -> "initComplexMatrixN"
      [] op = "init_diagonal_op" -> "initDiagonalOp"
      [] op = "set_diagonal_op_elems" -> "setDiagonalOpElems"
      [] op = "calc_prob_of_all_outcomes" -> "calcProbOfAllOutcomes"
      [] OTHER -> ""

\* C16 (as claimed): a forwarding operation enters exactly one native routine,
\* the one that carries its own name (copy_substate_from_gpu the GPU-to-RAM
\* copy, sqrt_swap_gate the square root of swap).
C16_OneToOneForwarding ==
    (pc \in {"native", "apply", "done"}) =>
        (nativeCalls = 1 /\ cur.routine = NativeNameOf(cur.op))

\* C17 (as claimed): init_complex_matrix_n returns ArrayLengthError, without a
\* native call, unless real and imag are both square of dimension numQubits;
\* for such arrays it forwards, and the call ends in Ok or
\* InvalidQuESTInputError.
C17_MatrixShapeChecked ==
    (pc # "idle" /\ cur.op = "init_complex_matrix_n") =>
        IF \E k \in 2 .. 5 : cur.args[k] # cur.args[1]
        THEN pc = "returned" /\ result = Err("ArrayLengthError") /\ nativeCalls = 0
        ELSE /\ nativeCalls = 1
             /\ cur.routine = "initComplexMatrixN"
             /\ pc \notin {"crashed", "panicked"}
             /\ pc = "returned" => result.kind \in {"Ok", "InvalidQuESTInputError"}

C19_DiagonalOpLengthAsserted ==
    (pc # "idle" /\ cur.op = "init_diagonal_op") =>
        IF cur.args[1] < NumAmps \/ cur.args[2] < NumAmps
        THEN pc = "panicked" /\ result = Panic /\ nativeCalls = 0
        ELSE pc # "panicked" /\ nativeCalls = 1 /\ cur.routine = "initDiagonalOp"
C19_Witness ==
    /\ pc = "panicked"
    /\ cur.op = "init_diagonal_op"
    /\ cur.args = <<NumAmps, NumAmps - 1>>
    /\ nativeCalls = 0

DropOps ==
    {"Drop for Qureg", "Drop for DiagonalOp", "Drop for PauliHamil",
     "Drop for ComplexMatrixN", "Drop for QuestEnv"}
DestroyOf(op) ==
    CASE op = "Drop for Qureg" -> "destroyQureg"
      [] op = "Drop for DiagonalOp" -> "destroyDiagonalOp"
      [] op = "Drop for PauliHamil" -> "destroyPauliHamil"
      [] op = "Drop for ComplexMatrixN" -> "destroyComplexMatrixN"
      [] op = "Drop for QuestEnv" -> "destroyQuESTEnv"
      [] OTHER -> ""

\* C12: a drop enters the matching native destroy routine, once, inside the
\* bridge; when the routine raised, the drop neither returns the failure nor
\* completes as if nothing happened: it panics; otherwise it returns.
C12_DropDestroysThroughBridge ==
    (pc # "idle" /\ cur.op \in DropOps) =>
        /\ cur.bridged
        /\ cur.routine = DestroyOf(cur.op)
        /\ nativeCalls = 1
        /\ fired => pc \in {"unwound", "panicked"}
        /\ (pc = "panicked") => (fired /\ result = Panic /\ slot = <<>>)
        /\ (pc = "returned") => (~fired /\ result = Plain(Unit))
C12_Witness ==
    /\ pc = "panicked"
    /\ cur.op = "Drop for ComplexMatrixN"
    /\ fired
    /\ bridgeRes.kind = "InvalidQuESTInputError"
    /\ result = Panic

\* C13: a native routine that is handed the environment runs only while the
\* environment is live, and once the environment is destroyed no register or
\* diagonal operator created from it is still to be destroyed.
C13_EnvDestroyedLast ==
    /\ (pc \in {"native", "apply"} /\ cur.routine \in EnvRoutines) => res.env = "live"
    /\ res.env = "destroyed" => BorrowsEnv(res) = {}
C13_Witness ==
    /\ res.env = "destroyed"
    /\ res.h[1] = Handle("Qureg", "destroyed")
    /\ res.h[2] = Handle("DiagonalOp", "destroyed")

C15_InnermostErrorReported ==
    /\ Len(slot) <= 1
    /\ \A t \in Threads :
          /\ \A d \in 1 .. Depth(t) :
                stk[t][d].st = "unwound" =>
                    (d = Depth(t) /\ stk[t][d].raised = ErrOf(t, d)
                     /\ slot = <<ErrOf(t, d)>>)
          /\ last[t].raised # NoErr =>
                (last[t].raised = ErrOf(t, last[t].depth)
                 /\ last[t].res = InvalidQuESTInputError(last[t].raised))
          /\ (last[t].depth > 0 /\ last[t].raised = NoErr) => last[t].res = Ok(Unit)
C15_Witness ==
    /\ last[1] = Report(MaxDepth, ErrOf(1, MaxDepth),
                        InvalidQuESTInputError(ErrOf(1, MaxDepth)))
    /\ Depth(1) = MaxDepth - 1
    /\ Top(1).st = "unit"
    /\ slot = <<>>

\* C21: get_amp at an index that the last set_amps wrote, with arrays at
\* least num_amps long, returns Ok with the complex value (reals[i], imags[i])
\* of the element written there.
C21_SetAmpsGetAmpRoundTrip ==
    (/\ pc = "returned" /\ cur.op = "get_amp"
     /\ wrote.by = "set_amps" /\ wrote.ok /\ qureg.known
     /\ wrote.args[2] >= wrote.args[4] /\ wrote.args[3] >= wrote.args[4]
     /\ cur.args[1] >= wrote.args[1] /\ cur.args[1] < wrote.args[1] + wrote.args[4]) =>
        result = Ok(Val("Qcomplex", ReIn(cur.args[1] - wrote.args[1]),
                        ImIn(cur.args[1] - wrote.args[1]), 1))
C21_Witness ==
    /\ pc = "returned" /\ cur.op = "get_amp" /\ cur.args = <<2>>
    /\ wrote.by = "set_amps" /\ wrote.ok /\ wrote.args = <<1, NumAmps, NumAmps, 2>>
    /\ result = Ok(Val("Qcomplex", ReIn(1), ImIn(1), 1))

\* C22: on a state-vector register, calc_prob_of_outcome of a qubit q < n
\* returns 1 for outcome 0 and 0 for outcome 1 after init_zero_state, and 1/2
\* for outcome 0 after init_plus_state.
C22_ProbsAfterInit ==
    (/\ pc = "returned" /\ cur.op = "calc_prob_of_outcome"
     /\ qureg.isDensityMatrix = 0
     /\ cur.args[1] \in 0 .. (NumQubits - 1)) =>
        /\ (wrote.by = "init_zero_state" /\ cur.args[2] = 0) =>
              (result.kind = "Ok" /\ result.val.ty = "Qreal" /\ result.val.x = result.val.d)
        /\ (wrote.by = "init_zero_state" /\ cur.args[2] = 1) =>
              (result.kind = "Ok" /\ result.val.x = 0 /\ result.val.d > 0)
        /\ (wrote.by = "init_plus_state" /\ cur.args[2] = 0) =>
              (result.kind = "Ok" /\ result.val.ty = "Qreal"
               /\ 2 * result.val.x = result.val.d)
C22_Witness ==
    /\ pc = "returned" /\ cur.op = "calc_prob_of_outcome"
    /\ cur.args = <<NumQubits - 1, 0>>
    /\ wrote.by = "init_plus_state"
    /\ result = Ok(Val("Qreal", NumAmps \div 2, 0, NumAmps))

\* C23 (as claimed): after init_classical_state(qureg, s) on a state-vector
\* register as created, get_prob_amp(qureg, i) returns 0 for every index i
\* of the register other than s.
C23_OtherAmpsZeroAfterClassical ==
    (/\ pc = "returned" /\ cur.op = "get_prob_amp"
     /\ wrote.by = "init_classical_state" /\ wrote.fresh
     /\ cur.args[1] \in AmpIdx /\ cur.args[1] # wrote.args[1]) =>
        (result.kind = "Ok" /\ result.val.x = 0)

\* C24 (as claimed): the operations that expect() the bridge's result never
\* see the callback fire and never panic.
C24_ExpectOpsNeverPanic ==
    (cur.op \in {"init_blank_state", "init_zero_state", "init_plus_state",
                 "init_debug_state", "calc_total_prob", "mix_kraus_map",
                 "mix_nontp_kraus_map", "apply_named_phase_func", "apply_full_qft"}) =>
        (~fired /\ pc # "panicked")

\* C25 (as claimed): multi_controlled_unitary, given a target or any control
\* qubit >= the register's qubit count, returns QubitIndexError without
\* entering a native routine.
C25_ControlIndicesChecked ==
    (/\ pc # "idle" /\ cur.op = "multi_controlled_unitary"
     /\ \/ cur.args[3] >= NumQubits
        \/ \E i \in 1 .. Len(cur.args[1]) : cur.args[1][i] >= NumQubits) =>
        (pc = "returned" /\ result = Err("QubitIndexError") /\ nativeCalls = 0)

\* C26: multi_qubit_not and multi_controlled_multi_qubit_not return
\* ArrayLengthError when a list is longer than the register has qubits,
\* otherwise QubitIndexError when an entry of a list is >= the qubit count,
\* both without a native call; otherwise they enter their native routine,
\* once, with the lengths of the lists they were given.
C26_LengthsBeforeIndices ==
    (pc # "idle" /\ cur.op \in {"multi_qubit_not", "multi_controlled_multi_qubit_not"}) =>
        LET lists == {cur.args[k] : k \in {j \in 1 .. Len(cur.args) : j % 2 = 1}}
        IN  IF \E l \in lists : Len(l) > NumQubits
            THEN pc = "returned" /\ result = Err("ArrayLengthError") /\ nativeCalls = 0
            ELSE IF \E l \in lists : \E i \in 1 .. Len(l) : l[i] >= NumQubits
            THEN pc = "returned" /\ result = Err("QubitIndexError") /\ nativeCalls = 0
            ELSE /\ nativeCalls = 1
                 /\ cur.bridged
                 /\ cur.routine = IF cur.op = "multi_qubit_not" THEN "multiQubitNot"
                                  ELSE "multiControlledMultiQubitNot"
                 /\ \A k \in 1 .. Len(cur.args) :
                       k % 2 = 0 => cur.args[k] = Len(cur.args[k - 1])
C26_Witness ==
    /\ pc = "returned"
    /\ cur.op = "multi_qubit_not"
    /\ Len(cur.args[1]) = NumQubits + 1
    /\ \E i \in 1 .. Len(cur.args[1]) : cur.args[1][i] >= NumQubits
    /\ result = Err("ArrayLengthError")
    /\ nativeCalls = 0

\* C28 (as claimed): an operation with a pre-call index check hands the native
\* routine only qubit indices in 0 .. n-1.
C28_OnlyValidIndicesReachNative ==
    (pc \in {"native", "apply", "done", "unwound"} /\ cur.op \in PreCheckedOps) =>
        \A t \in QubitArgs(cur) : t >= 0 /\ t < NumQubits

\* C27: an operation taking a file name, given a name with an interior NUL
\* byte, returns NulError at once: no native routine is entered, the callback
\* does not fire, the slot stays empty, and the creating operations leave no
\* wrapper behind (the handle slot stays free, so nothing is later destroyed).
C27_NulNameRejected ==
    (/\ pc # "idle"
     /\ cur.op \in {"PauliHamil::try_new_from_file", "DiagonalOp::try_new_from_file",
                    "write_recorded_qasm_to_file"}
     /\ cur.args[2]) =>
        /\ pc = "returned"
        /\ result = Err("NulError")
        /\ nativeCalls = 0
        /\ slot = <<>> /\ ~fired /\ cb = NoErr
        /\ cur.op # "write_recorded_qasm_to_file" => res.h[cur.args[1]] = NoHandle
C27_Witness ==
    /\ pc = "returned"
    /\ cur.op = "DiagonalOp::try_new_from_file"
    /\ cur.args[2]
    /\ result = Err("NulError")
    /\ res.h[cur.args[1]] = NoHandle

\* C29: a destroy routine runs only on a live handle, so never twice on one
\* handle and never on a handle whose creation failed; a completed drop
\* leaves the handle destroyed; a creation that returned Err leaves no handle;
\* and a native routine is handed only live handles.
C29_HandlesDestroyedOnce ==
    /\ (/\ pc \in {"native", "apply"}
        /\ cur.routine \in DestroyRoutines
                            \cup {"writeRecordedQASMToFile", "mixMultiQubitKrausMap"}) =>
          res.h[cur.args[1]].state = "live"
    /\ (pc \in {"native", "apply"} /\ cur.routine = "mixMultiQubitKrausMap") =>
          res.h[cur.args[2]].state = "live"
    /\ (pc \in {"done", "returned"} /\ cur.routine \in DestroyRoutines) =>
          res.h[cur.args[1]].state = "destroyed"
    /\ (pc = "returned" /\ cur.routine \in CreateRoutines) =>
          IF result.kind = "Ok" THEN res.h[cur.args[1]].state = "live"
          ELSE res.h[cur.args[1]] = NoHandle
C29_Witness ==
    /\ pc = "returned"
    /\ cur.op = "Drop for Qureg"
    /\ res.h[cur.args[1]] = Handle("Qureg", "destroyed")
    /\ \E h \in HandleIds : res.h[h] = Handle("ComplexMatrixN", "destroyed")

====
